---- MODULE Spec2Model ----
(***************************************************************************)
(* Model of the file-backed key-value Store of lwe8/util                   *)
(* (src/src/object/index.ts, lines 83-238) and of its eviction helper      *)
(* reduceByts.                                                             *)
(*                                                                         *)
(* A mapping (a JavaScript object used as a dictionary) is a function from *)
(* a finite set of keys to values.  dequal, the spread operator and the    *)
(* `in`/includes tests ignore the insertion order of keys, so the Store    *)
(* part keeps no order.  reduceByts depends on the order (Object.keys and  *)
(* a stable sort), so its input is a sequence of <<key, value>> entries.   *)
(*                                                                         *)
(* Values are JSON values: null, the number 1, the object {x: 1} and       *)
(* strings of n ASCII characters, each a record [kind, n].  `undefined`    *)
(* is what get returns for a missing key; it is not JSON-serializable and  *)
(* is never passed to set.                                                 *)
(*                                                                         *)
(* The field `__proto__` is declared as a class field (line 111), so it is *)
(* an own data property of the instance holding the last persisted         *)
(* mapping.  (In a build that drops the field declaration, the assignment  *)
(* of line 119 replaces the instance's prototype and the constructor       *)
(* raises at line 123: no Store exists, and there is nothing to model.)    *)
(***************************************************************************)
EXTENDS Integers, Sequences, FiniteSets, TLC

VARIABLES
  _store,      \* Store._store: the pending buffer
  __proto__,   \* Store.__proto__: the last persisted snapshot
  fileExists,  \* fs.existsSync(this._filePath)
  fileData,    \* the mapping serialized in the backing file
  fileCorrupt, \* the file's bytes are not a Brotli stream of JSON text
  dirExists,   \* fs.existsSync(this._storeDir)
  wroteOnce,   \* history: this instance has completed a write() call
  call,        \* history: the last operation called and its arguments
  wrote,       \* history: the last operation called fs.writeFileSync
  err,         \* history: the error the last operation raised, or "none"
  events,      \* history: the notifications the last operation emitted
  ret,         \* history: the value the last get returned
  twice,       \* history: the last two calls were both write()
  rObj,        \* reduceByts: the argument obj, as entries in key order
  rMax,        \* reduceByts: the argument max
  rOut,        \* reduceByts: the returned reducedObj, as entries in key order
  rPc,         \* reduceByts: "call" before the call, "done" after it
  fsExists,    \* _fs: the folder exists
  fsDir,       \* _fs: the folder's entry names, in the order readdir lists them
  fsFault,     \* _fs: the error the file system raises, and at which call
  fsOut,       \* _fs: the outcome of the last helper call
  fsPc         \* _fs: "start" before a helper is called, then its name

storeVars == <<_store, __proto__, fileExists, fileData, fileCorrupt, dirExists,
               wroteOnce,
               call, wrote, err, events, ret, twice>>
reduceVars == <<rObj, rMax, rOut, rPc>>
fsVars == <<fsExists, fsDir, fsFault, fsOut, fsPc>>
vars == <<storeVars, reduceVars, fsVars>>

---------------------------------------------------------------------------
\* Bounds of the model.

\* number of distinct keys the callers use
NumKeys == 2
\* largest number of keys in one set(mapping) or remove(...keys) call
MaxArgs == 2

KeyUniverse == <<"a", "b", "c", "d">>
Keys == {KeyUniverse[i] : i \in 1..NumKeys}

---------------------------------------------------------------------------
\* Values.

Null == [kind |-> "null", n |-> 0]
Num1 == [kind |-> "num", n |-> 1]
ObjX1 == [kind |-> "obj", n |-> 1]
Str(len) == [kind |-> "str", n |-> len]
undefined == [kind |-> "undefined", n |-> 0]

\* the values callers store: null, {x: 1} and a string of 199998 characters
Values == {Null, ObjX1, Str(199998)}

EmptyObj == [k \in {} |-> Null]

\* every mapping over Keys with at most n keys
ObjsUpTo(n) ==
  UNION {[D -> Values] : D \in {S \in SUBSET Keys : Cardinality(S) <= n}}

\* {...base, ...over}
Spread(base, over) ==
  [k \in DOMAIN base \cup DOMAIN over |->
     IF k \in DOMAIN over THEN over[k] ELSE base[k]]

\* the object after `delete obj[key]` for every key of keys
DeleteKeys(obj, keys) == [k \in DOMAIN obj \ keys |-> obj[k]]

\* number of decimal digits of a natural number
RECURSIVE Digits(_)
Digits(n) == IF n < 10 THEN 1 ELSE 1 + Digits(n \div 10)

\* Buffer.byteLength(JSON.stringify(v), "utf8") of one value
bfo(v) ==
  CASE v.kind = "null" -> 4
    [] v.kind = "num" -> Digits(v.n)
    [] v.kind = "obj" -> 6 + Digits(v.n)
    [] v.kind = "str" -> v.n + 2

RECURSIVE SumEntryBytes(_, _)
SumEntryBytes(obj, D) ==
  IF D = {} THEN 0
  ELSE LET k == CHOOSE x \in D : TRUE
       IN Len(k) + 3 + bfo(obj[k]) + SumEntryBytes(obj, D \ {k})

\* bfo of a whole mapping: braces, "key":value entries, commas between them
bfoObj(obj) ==
  LET c == Cardinality(DOMAIN obj)
  IN 2 + SumEntryBytes(obj, DOMAIN obj) + (IF c > 0 THEN c - 1 ELSE 0)

\* JSON.stringify of a mapping drops the keys whose value is undefined
JSONstringify(obj) ==
  [k \in {j \in DOMAIN obj : obj[j] # undefined} |-> obj[k]]

\* JSON.parse of the text JSONstringify produced
JSONparse(text) == text

\* dequal(foo, bar) on mappings: same keys, structurally equal values
dequalShallow(foo, bar) ==
  /\ DOMAIN foo = DOMAIN bar
  /\ \A k \in DOMAIN foo : foo[k] = bar[k] /\ foo[k].kind # "obj"
dequalIdentity(foo, bar) == FALSE
dequal(foo, bar) ==
  /\ DOMAIN foo = DOMAIN bar
  /\ \A k \in DOMAIN foo : foo[k] = bar[k]

---------------------------------------------------------------------------
\* reduceByts(obj, max).  obj is the sequence of its <<key, value>> entries in
\* Object.keys order.

\* largest number of entries of the mapping handed to reduceByts
MaxEntries == 3

\* obj[key]
ValueOf(obj, key) ==
  LET i == CHOOSE j \in 1..Len(obj) : obj[j][1] = key IN obj[i][2]

\* Object.keys(obj)
ObjectKeys(obj) == [i \in 1..Len(obj) |-> obj[i][1]]

\* keys with k inserted after every key whose value is at least as large:
\* one step of a stable sort under the comparator bfo(obj[b]) - bfo(obj[a])
RECURSIVE InsertDesc(_, _, _)
InsertDesc(obj, keys, k) ==
  IF keys = <<>> THEN <<k>>
  ELSE IF bfo(ValueOf(obj, keys[1])) >= bfo(ValueOf(obj, k))
       THEN <<keys[1]>> \o InsertDesc(obj, Tail(keys), k)
       ELSE <<k>> \o keys

\* keys.sort((a, b) => bfo(obj[b]) - bfo(obj[a])), a stable sort
RECURSIVE sortBySizeDesc(_, _)
sortBySizeDesc(obj, keys) ==
  IF keys = <<>> THEN <<>>
  ELSE InsertDesc(obj, sortBySizeDesc(obj, SubSeq(keys, 1, Len(keys) - 1)),
                  keys[Len(keys)])

\* the for loop of reduceByts from keys[i] on, with the running total `size`
\* and the entries accepted so far
RECURSIVE reduceLoopContinue(_, _, _, _, _, _)
reduceLoopContinue(obj, keys, max, i, size, reducedObj) ==
  IF i > Len(keys) THEN reducedObj
  ELSE LET key == keys[i]
           keySize == bfo(ValueOf(obj, key))
       IN IF size + keySize > max
          THEN reduceLoopContinue(obj, keys, max, i + 1, size, reducedObj)
          ELSE reduceLoopContinue(obj, keys, max, i + 1, size + keySize,
                                  Append(reducedObj, <<key, ValueOf(obj, key)>>))
RECURSIVE reduceLoop(_, _, _, _, _, _)
reduceLoop(obj, keys, max, i, size, reducedObj) ==
  IF i > Len(keys) THEN reducedObj
  ELSE LET key == keys[i]
           keySize == bfo(ValueOf(obj, key))
       IN IF size + keySize > max
          THEN reducedObj
          ELSE reduceLoop(obj, keys, max, i + 1, size + keySize,
                          Append(reducedObj, <<key, ValueOf(obj, key)>>))

reduceByts(obj, max) ==
  reduceLoop(obj, sortBySizeDesc(obj, ObjectKeys(obj)), max, 1, 0, <<>>)

---------------------------------------------------------------------------
\* The Store.

_max == 250000

\* the event names the constructor registers a listener for
Listeners == {"bytesLimitOver", "removedFromTempStorage", "removedFromFileStorag"}

Event(name, key) == [name |-> name, key |-> key, handled |-> name \in Listeners]

firstWrite == fileExists

\* zlib.brotliDecompressSync or JSON.parse raises in getFormFile
readFails == fileExists /\ fileCorrupt

getFormFile == IF fileExists THEN JSONparse(fileData) ELSE EmptyObj

getNewStoreFileWins == Spread(_store, getFormFile)
getNewStore == Spread(getFormFile, _store)

\* obj[key] ?? undefined
Lookup(obj, key) ==
  IF key \in DOMAIN obj /\ obj[key] # Null THEN obj[key] ELSE undefined

\* what get(key) returns in the current state
get(key) == Lookup(getNewStore, key)

Called(op, keys, obj) ==
  /\ call' = [op |-> op, keys |-> keys, obj |-> obj]
  /\ twice' = (op = "write" /\ call.op = "write")

\* the error of getFormFile leaves the operation before it changed anything
Raise ==
  /\ err' = "ReadError"
  /\ wrote' = FALSE /\ events' = {} /\ ret' = undefined
  /\ UNCHANGED <<_store, __proto__, fileExists, fileData, fileCorrupt,
                 dirExists, wroteOnce>>

\* what _write hands to fs.writeFileSync
_writeBufferOnly(obj) == JSONstringify(_store)
_writeData(obj) == JSONstringify(obj)

\* emitEvent after a write that left `data` in the file and the buffer empty:
\* the file after it, the notifications emitted and the error raised.  The
\* listener of bytesLimitOver is the unbound method reducebyts; the emitter
\* calls it with itself as `this`, and this.getNewStore() raises a TypeError.
emitEventEnforced(data) ==
  LET _ns == Spread(JSONparse(data), EmptyObj)
      order == CHOOSE q \in [1..Cardinality(DOMAIN _ns) -> DOMAIN _ns] :
                 \A i, j \in DOMAIN q : i # j => q[i] # q[j]
      entries == [i \in DOMAIN order |-> <<order[i], _ns[order[i]]>>]
      reduced == reduceByts(entries, _max)
      kept == {reduced[i][1] : i \in 1..Len(reduced)}
  IN IF bfoObj(_ns) > _max
     THEN [data |-> [k \in kept |-> _ns[k]],
           events |-> {Event("bytesLimitOver", "")}, err |-> "none"]
     ELSE [data |-> data, events |-> {}, err |-> "none"]
emitEvent(data) ==
  LET _ns == Spread(JSONparse(data), EmptyObj)
  IN IF bfoObj(_ns) > _max
     THEN [data |-> data, events |-> {Event("bytesLimitOver", "")},
           err |-> "TypeError"]
     ELSE [data |-> data, events |-> {}, err |-> "none"]

\* new Store(name), over the same backing file
Construct ==
  /\ Called("new", {}, EmptyObj)
  /\ _store' = EmptyObj
  /\ __proto__' = EmptyObj
  /\ wroteOnce' = FALSE
  /\ wrote' = FALSE /\ err' = "none" /\ events' = {} /\ ret' = undefined
  /\ UNCHANGED <<fileExists, fileData, fileCorrupt, dirExists>>

\* set(obj)
SetObj ==
  \E obj \in ObjsUpTo(MaxArgs) :
    /\ Called("set", DOMAIN obj, obj)
    /\ IF readFails THEN Raise
       ELSE /\ _store' = Spread(getNewStore, obj)
            /\ wrote' = FALSE /\ err' = "none" /\ events' = {}
            /\ ret' = undefined
            /\ UNCHANGED <<__proto__, fileExists, fileData, fileCorrupt,
                           dirExists, wroteOnce>>

\* set(key, value)
SetKV ==
  \E key \in Keys, value \in Values :
    /\ Called("set", {key}, [k \in {key} |-> value])
    /\ IF readFails THEN Raise
       ELSE /\ _store' = [k \in DOMAIN getNewStore \cup {key} |->
                            IF k = key THEN value ELSE getNewStore[k]]
            /\ wrote' = FALSE /\ err' = "none" /\ events' = {}
            /\ ret' = undefined
            /\ UNCHANGED <<__proto__, fileExists, fileData, fileCorrupt,
                           dirExists, wroteOnce>>

\* get(key)
Get ==
  \E key \in Keys :
    /\ Called("get", {key}, EmptyObj)
    /\ IF readFails THEN Raise
       ELSE /\ ret' = get(key)
            /\ wrote' = FALSE /\ err' = "none" /\ events' = {}
            /\ UNCHANGED <<_store, __proto__, fileExists, fileData, fileCorrupt,
                           dirExists, wroteOnce>>

\* the getter `store`
StoreGetter ==
  /\ Called("store", {}, EmptyObj)
  /\ IF readFails THEN Raise
     ELSE /\ ret' = getNewStore
          /\ wrote' = FALSE /\ err' = "none" /\ events' = {}
          /\ UNCHANGED <<_store, __proto__, fileExists, fileData, fileCorrupt,
                         dirExists, wroteOnce>>

\* the getter `json`
JsonGetter ==
  /\ Called("json", {}, EmptyObj)
  /\ IF readFails THEN Raise
     ELSE /\ ret' = JSONstringify(getNewStore)
          /\ wrote' = FALSE /\ err' = "none" /\ events' = {}
          /\ UNCHANGED <<_store, __proto__, fileExists, fileData, fileCorrupt,
                         dirExists, wroteOnce>>

\* the copy of the file's mapping after the loop of remove
removeKeepsFileKeys(_fs, keys) == _fs
removeFromFile(_fs, keys) == DeleteKeys(_fs, keys)

\* remove(...args)
Remove ==
  \E keys \in {S \in SUBSET Keys : Cardinality(S) <= MaxArgs} :
    LET _fs == removeFromFile(getFormFile, keys)
        store1 == DeleteKeys(_store, keys)
        emitted ==
          {Event("removedFromTempStorage", k) : k \in keys \cap DOMAIN _store}
            \cup
          {Event("removedFromFileStorage", k) : k \in keys \cap DOMAIN getFormFile}
    IN /\ Called("remove", keys, EmptyObj)
       /\ IF readFails THEN Raise
          ELSE /\ events' = emitted
               /\ err' = "none" /\ ret' = undefined
               /\ IF ~dequal(_fs, __proto__)
                  THEN /\ dirExists
                       /\ fileExists' = TRUE
                       /\ fileData' = _writeData(_fs)
                       /\ fileCorrupt' = FALSE
                       /\ _store' = EmptyObj
                       /\ __proto__' = _fs
                       /\ wrote' = TRUE
                  ELSE /\ _store' = store1
                       /\ wrote' = FALSE
                       /\ UNCHANGED <<__proto__, fileExists, fileData,
                                      fileCorrupt>>
               /\ UNCHANGED <<dirExists, wroteOnce>>

\* write()
Write ==
  LET _ns == getNewStore
  IN /\ Called("write", {}, EmptyObj)
     /\ IF readFails THEN Raise
        ELSE /\ wroteOnce' = TRUE
             /\ ret' = undefined
             /\ IF ~firstWrite \/ ~dequal(_ns, __proto__)
                THEN LET e == emitEvent(_writeData(_ns))
                     IN /\ dirExists' = TRUE
                        /\ __proto__' = _ns
                        /\ fileExists' = TRUE
                        /\ fileData' = e.data
                        /\ fileCorrupt' = FALSE
                        /\ _store' = EmptyObj
                        /\ wrote' = TRUE
                        /\ events' = e.events
                        /\ err' = e.err
                ELSE /\ wrote' = FALSE /\ err' = "none" /\ events' = {}
                     /\ UNCHANGED <<_store, __proto__, fileExists, fileData,
                                    fileCorrupt, dirExists>>

\* another program overwrites the backing file with bytes that do not
\* decompress or parse
Corrupt ==
  /\ fileExists /\ ~fileCorrupt
  /\ fileCorrupt' = TRUE
  /\ Called("corrupt", {}, EmptyObj)
  /\ wrote' = FALSE /\ err' = "none" /\ events' = {} /\ ret' = undefined
  /\ UNCHANGED <<_store, __proto__, fileExists, fileData, dirExists, wroteOnce>>

StoreInit ==
  /\ _store = EmptyObj
  /\ __proto__ = EmptyObj
  /\ fileExists = FALSE
  /\ fileData = EmptyObj
  /\ fileCorrupt = FALSE
  /\ dirExists = FALSE
  /\ wroteOnce = FALSE
  /\ call = [op |-> "new", keys |-> {}, obj |-> EmptyObj]
  /\ wrote = FALSE
  /\ err = "none"
  /\ events = {}
  /\ ret = undefined
  /\ twice = FALSE

ReduceIdle ==
  /\ rObj = <<>> /\ rMax = 0 /\ rOut = <<>> /\ rPc = "idle"

FsIdle ==
  /\ fsExists = FALSE /\ fsDir = <<>> /\ fsPc = "idle"
  /\ fsFault = [at |-> "none", name |-> <<>>, error |-> <<>>]
  /\ fsOut = [rejected |-> FALSE, error |-> <<>>, keys |-> <<>>]

Init == StoreInit /\ ReduceIdle /\ FsIdle

Next ==
  \/ Construct /\ UNCHANGED <<reduceVars, fsVars>>
  \/ SetObj /\ UNCHANGED <<reduceVars, fsVars>>
  \/ SetKV /\ UNCHANGED <<reduceVars, fsVars>>
  \/ Get /\ UNCHANGED <<reduceVars, fsVars>>
  \/ StoreGetter /\ UNCHANGED <<reduceVars, fsVars>>
  \/ JsonGetter /\ UNCHANGED <<reduceVars, fsVars>>
  \/ Remove /\ UNCHANGED <<reduceVars, fsVars>>
  \/ Write /\ UNCHANGED <<reduceVars, fsVars>>

Spec == Init /\ [][Next]_vars

\* the Store over a file that another program may corrupt
NextCorrupt ==
  \/ Next
  \/ Corrupt /\ UNCHANGED <<reduceVars, fsVars>>

SpecCorrupt == Init /\ [][NextCorrupt]_vars

---------------------------------------------------------------------------
\* reduceByts applied to every mapping of at most MaxEntries entries.

ReduceKeys == {KeyUniverse[i] : i \in 1..MaxEntries}

\* values of 1, 7, 5000 and 200000 serialized bytes
ReduceValues == {Num1, ObjX1, Str(4998), Str(199998)}

\* the budgets tried
ReduceMaxes == {0, 1, 8, 5007, 200001, 200500, 205000, 250000}

\* every mapping over ReduceKeys, in every insertion order
ReduceObjs ==
  UNION {{q \in [1..n -> ReduceKeys \X ReduceValues] :
            \A i, j \in 1..n : i # j => q[i][1] # q[j][1]} : n \in 0..MaxEntries}

InitReduce ==
  /\ StoreInit
  /\ FsIdle
  /\ rObj \in ReduceObjs
  /\ rMax \in ReduceMaxes
  /\ rOut = <<>>
  /\ rPc = "call"

CallReduceByts ==
  /\ rPc = "call"
  /\ rOut' = reduceByts(rObj, rMax)
  /\ rPc' = "done"
  /\ UNCHANGED <<rObj, rMax, storeVars, fsVars>>

NextReduce == CallReduceByts

SpecReduce == InitReduce /\ [][NextReduce]_vars

---------------------------------------------------------------------------
\* The directory helpers clear and read of _fs (src/unnamed/part_000).
\*
\* An entry name is a sequence of chunks: a run of digits, kept as the number
\* it writes (no leading zeros), or a run of letters, kept as its rank among
\* the letter runs used.  "10" is <<Num(10)>>, "file2" is <<Txt(2), Num(2)>>,
\* "9a" is <<Num(9), Txt(1)>>.  read is modelled on a folder of files; the
\* order of the keys does not depend on the values.

\* largest number of entries in the folder
MaxDirEntries == 3

Num(v) == [t |-> "num", v |-> v]
\* the letter runs, by rank: 1 is "a", 2 is "file"
Txt(rank) == [t |-> "txt", v |-> rank]

\* the names "1", "2", "10", "file2", "file10" and "9a"
Names == {<<Num(1)>>, <<Num(2)>>, <<Num(10)>>, <<Txt(2), Num(2)>>,
          <<Txt(2), Num(10)>>, <<Num(9), Txt(1)>>}

\* every listing readdir can return: distinct names in any order
Listings ==
  UNION {{q \in [1..n -> Names] : \A i, j \in 1..n : i # j => q[i] # q[j]} :
           n \in 0..MaxDirEntries}

\* the errors the file system raises: two with a code, an Error object
\* without a code field, and a thrown value that is no object
ENOENT == [isObject |-> TRUE, hasCode |-> TRUE, code |-> "ENOENT"]
EACCES == [isObject |-> TRUE, hasCode |-> TRUE, code |-> "EACCES"]
NoCodeError == [isObject |-> TRUE, hasCode |-> FALSE, code |-> ""]
NonObjectError == [isObject |-> FALSE, hasCode |-> FALSE, code |-> ""]
Errors == {ENOENT, EACCES, NoCodeError, NonObjectError}

\* Intl.Collator(undefined, {numeric: true}).compare(a, b): negative, zero or
\* positive.  Digit runs compare as numbers, digits sort before letters, and
\* a name sorts before every name it is a proper prefix of.
RECURSIVE naturalOrder(_, _)
naturalOrder(a, b) ==
  IF a = <<>> /\ b = <<>> THEN 0
  ELSE IF a = <<>> THEN -1
  ELSE IF b = <<>> THEN 1
  ELSE IF a[1].t # b[1].t THEN (IF a[1].t = "num" THEN -1 ELSE 1)
  ELSE IF a[1].v < b[1].v THEN -1
  ELSE IF a[1].v > b[1].v THEN 1
  ELSE naturalOrder(Tail(a), Tail(b))

\* keys with k inserted after every key that does not sort after it
RECURSIVE InsertNatural(_, _)
InsertNatural(keys, k) ==
  IF keys = <<>> THEN <<k>>
  ELSE IF naturalOrder(keys[1], k) <= 0
       THEN <<keys[1]>> \o InsertNatural(Tail(keys), k)
       ELSE <<k>> \o keys

\* entries.sort(([keyA], [keyB]) => naturalOrder(keyA, keyB)), a stable sort
RECURSIVE sortNatural(_)
sortNatural(keys) ==
  IF keys = <<>> THEN <<>>
  ELSE InsertNatural(sortNatural(SubSeq(keys, 1, Len(keys) - 1)),
                     keys[Len(keys)])

\* a property key that is a canonical array index: one digit run (every
\* number in Names is far below the limit 2^32 - 1 of an array index)
IsIntegerKey(k) == Len(k) = 1 /\ k[1].t = "num"

\* the subsequence of keys that satisfy (or not) IsIntegerKey
RECURSIVE SelectKeys(_, _)
SelectKeys(keys, integer) ==
  IF keys = <<>> THEN <<>>
  ELSE (IF IsIntegerKey(keys[1]) = integer THEN <<keys[1]>> ELSE <<>>)
         \o SelectKeys(Tail(keys), integer)

\* integer keys in ascending numeric order
RECURSIVE InsertNumeric(_, _)
InsertNumeric(keys, k) ==
  IF keys = <<>> THEN <<k>>
  ELSE IF keys[1][1].v <= k[1].v
       THEN <<keys[1]>> \o InsertNumeric(Tail(keys), k)
       ELSE <<k>> \o keys
RECURSIVE sortNumeric(_)
sortNumeric(keys) ==
  IF keys = <<>> THEN <<>>
  ELSE InsertNumeric(sortNumeric(Tail(keys)), keys[1])

\* the order in which the keys of Object.fromEntries(entries) iterate:
\* integer keys in ascending numeric order, then the other keys in the order
\* of insertion
ObjectFromEntries(keys) ==
  sortNumeric(SelectKeys(keys, TRUE)) \o SelectKeys(keys, FALSE)

\* the condition under which the catch block of clear throws the error again
Rethrows(error) ==
  error.isObject /\ error.hasCode /\ error.code # "ENOENT"

\* the error raised inside the try block of clear, if any: by readdir on a
\* missing or unreadable folder, or by one fs.rm
ClearRaised ==
  IF ~fsExists THEN <<ENOENT>>
  ELSE IF fsFault.at = "readdir" THEN <<fsFault.error>>
  ELSE IF fsFault.at = "rm" THEN <<fsFault.error>>
  ELSE <<>>

\* clear(folderPath)
Clear ==
  /\ fsPc = "start"
  /\ fsPc' = "clear"
  /\ fsOut' = [rejected |-> ClearRaised # <<>> /\ Rethrows(ClearRaised[1]),
               error |-> ClearRaised, keys |-> <<>>]
  /\ fsDir' = IF ~fsExists \/ fsFault.at = "readdir" THEN fsDir
              ELSE IF fsFault.at = "rm" THEN <<fsFault.name>>
              ELSE <<>>
  /\ UNCHANGED <<fsExists, fsFault, storeVars, reduceVars>>

\* the error that rejects read, if any: read has no catch block
ReadRaised ==
  IF ~fsExists THEN <<ENOENT>>
  ELSE IF fsFault.at = "readdir" THEN <<fsFault.error>>
  ELSE <<>>

\* read(folderPath)
Read ==
  /\ fsPc = "start"
  /\ fsPc' = "read"
  /\ fsOut' = [rejected |-> ReadRaised # <<>>,
               error |-> ReadRaised,
               keys |-> IF ReadRaised # <<>> THEN <<>>
                        ELSE ObjectFromEntries(sortNatural(fsDir))]
  /\ UNCHANGED <<fsExists, fsDir, fsFault, storeVars, reduceVars>>

\* every folder and every fault: none, one at readdir, or one at the fs.rm of
\* one entry
InitFs ==
  /\ StoreInit
  /\ ReduceIdle
  /\ fsExists \in BOOLEAN
  /\ fsDir \in Listings
  /\ fsExists = FALSE => fsDir = <<>>
  /\ fsFault \in
       {[at |-> "none", name |-> <<>>, error |-> <<>>]}
         \cup {[at |-> "readdir", name |-> <<>>, error |-> e] : e \in Errors}
         \cup {[at |-> "rm", name |-> n, error |-> e] : n \in Names, e \in Errors}
  /\ fsFault.at = "rm" => \E i \in 1..Len(fsDir) : fsDir[i] = fsFault.name
  /\ fsFault.at = "readdir" => fsExists
  /\ fsOut = [rejected |-> FALSE, error |-> <<>>, keys |-> <<>>]
  /\ fsPc = "start"

NextFs == Clear \/ Read

SpecFs == InitFs /\ [][NextFs]_vars

---------------------------------------------------------------------------
\* Properties of the Store.

\* what the backing file holds: nothing when there is no file
OnDisk == IF fileExists THEN fileData ELSE EmptyObj

\* the merged view: the on-disk mapping overlaid by the pending buffer
MergedView ==
  [k \in DOMAIN OnDisk \cup DOMAIN _store |->
     IF k \in DOMAIN _store THEN _store[k] ELSE OnDisk[k]]

\* what get(key) returns on a fresh instance constructed with the same name
FreshGet(key) ==
  IF key \in DOMAIN OnDisk /\ OnDisk[key] # Null THEN OnDisk[key] ELSE undefined

BytesLimitOverEmitted == \E e \in events : e.name = "bytesLimitOver"

\* C1: after every set call, get(k) returns the value that set gave to each
\* key k it named, get(k) of every other key is what it was before the call
\* (the on-disk value or absent when k was never set), and the backing file is
\* neither created nor modified.
C1_SetThenGet ==
  [][call'.op = "set" =>
       /\ \A k \in call'.keys : get(k)' = call'.obj[k]
       /\ \A k \in Keys \ call'.keys : get(k)' = get(k)
       /\ UNCHANGED <<fileExists, fileData>>]_vars

\* C2: after write(), the backing file holds the merged view as it was just
\* before the call, and a fresh instance returns for every key the get(k) the
\* writing instance returned before the call.
C2_RoundTrip ==
  [][call'.op = "write" =>
       /\ fileExists'
       /\ fileData' = MergedView
       /\ \A k \in Keys : FreshGet(k)' = get(k)]_vars

\* a write() persisted a mapping holding {x: 1} under key a
C2_Witness ==
  /\ call.op = "write" /\ wrote
  /\ "a" \in DOMAIN fileData /\ fileData["a"] = ObjX1
  /\ FreshGet("a") = ObjX1

\* C3: a write() that directly follows a write() performs no disk write and
\* leaves file, snapshot and buffer unchanged; and a write() called when no
\* file exists or the merged view differs from the file performs one.
C3_WriteIdempotent ==
  [][call'.op = "write" =>
       /\ call.op = "write" =>
            ~wrote' /\ UNCHANGED <<_store, __proto__, fileExists, fileData>>
       /\ (~fileExists \/ MergedView # fileData) => wrote']_vars

\* the second of two write() calls in a row, over a non-empty persisted file
C3_Witness ==
  /\ twice /\ call.op = "write" /\ ~wrote
  /\ fileExists /\ fileData # EmptyObj /\ __proto__ = fileData

\* C4: on an instance that has written, after a set(m') whose values are
\* structurally equal to the persisted ones (the merged view equals the file),
\* write() performs no disk write and leaves the file untouched.
C4_StructuralEquality ==
  [][(/\ call'.op = "write"
      /\ wroteOnce
      /\ call.op = "set" /\ call.keys # {}
      /\ \A k \in call.keys : k \in DOMAIN OnDisk /\ call.obj[k] = OnDisk[k]
      /\ MergedView = OnDisk)
     => ~wrote' /\ UNCHANGED <<fileExists, fileData>>]_vars

\* a write() without disk write after {x: 1} was set again over a persisted
\* {x: 1}
C4_Witness ==
  /\ call.op = "write" /\ ~wrote /\ wroteOnce
  /\ "a" \in DOMAIN _store /\ _store["a"] = ObjX1
  /\ "a" \in DOMAIN OnDisk /\ OnDisk["a"] = ObjX1

\* C5: on an instance that has written, remove of a key k held by the file
\* rewrites the file at once, the rewritten file does not hold k, and a fresh
\* instance's get(k) returns undefined.
C5_RemovePersisted ==
  [][call'.op = "remove" =>
       \A k \in call'.keys :
         (wroteOnce /\ k \in DOMAIN OnDisk) =>
           /\ wrote'
           /\ fileExists' /\ k \notin DOMAIN fileData'
           /\ FreshGet(k)' = undefined]_vars

\* a remove on an instance that has written rewrote the file
C5_Witness ==
  /\ call.op = "remove" /\ wroteOnce /\ wrote
  /\ call.keys # {} /\ call.keys \cap DOMAIN OnDisk = {}

\* C6: remove(k) of a key k that is neither in the buffer nor in the file
\* raises no error, emits no notification, writes nothing and leaves buffer,
\* file and snapshot unchanged.
C6_RemoveAbsentNoOp ==
  [][(/\ call'.op = "remove"
      /\ Cardinality(call'.keys) = 1
      /\ call'.keys \cap (DOMAIN _store \cup DOMAIN OnDisk) = {})
     => /\ err' = "none" /\ events' = {} /\ ~wrote'
        /\ UNCHANGED <<_store, __proto__, fileExists, fileData>>]_vars

\* C7: after every write() the snapshot equals the merged view computed by the
\* call and the pending buffer is empty.
C7_SnapshotAndBuffer ==
  [][call'.op = "write" =>
       /\ __proto__' = MergedView
       /\ _store' = EmptyObj]_vars

C10_NotificationsHarmless ==
  call.op \in {"write", "remove"} => err = "none"

\* the operations that read the backing file
ReadingOps == {"get", "set", "remove", "write", "store", "json"}

\* C12: an operation that reads a backing file whose content cannot be
\* decompressed or parsed raises an error and leaves file, buffer and snapshot
\* unchanged; the same operation raises no error when there is no file.
C12_CorruptOrMissingFile ==
  [][call'.op \in ReadingOps =>
       /\ (fileExists /\ fileCorrupt) =>
            /\ err' # "none"
            /\ UNCHANGED <<fileExists, fileData, fileCorrupt, _store, __proto__>>
       /\ ~fileExists => err' = "none"]_vars

\* C15: remove(keys) leaves get(j) unchanged for every key j that is not
\* among the removed keys, a pending value of j included.
C15_RemoveOnlyNamedKeys ==
  [][call'.op = "remove" =>
       \A j \in Keys \ call'.keys : get(j)' = get(j)]_vars

\* C16: on an instance that has not called write(), remove of a key k held by
\* the existing file leaves k neither in the file nor visible to get.
C16_RemoveFromExistingFile ==
  [][call'.op = "remove" =>
       \A k \in call'.keys :
         (~wroteOnce /\ fileExists /\ k \in DOMAIN OnDisk) =>
           /\ k \notin DOMAIN OnDisk'
           /\ get(k)' = undefined]_vars

\* C17: the snapshot is the empty mapping or equals the mapping stored in the
\* backing file.
C17_SnapshotConsistent ==
  __proto__ = EmptyObj \/ (fileExists /\ __proto__ = fileData)

\* a remove rewrote the file and left a non-empty snapshot equal to it
C17_Witness ==
  /\ call.op = "remove" /\ wrote
  /\ __proto__ # EmptyObj
  /\ fileExists /\ __proto__ = fileData

\* C18: write() leaves the file untouched whenever the file exists and already
\* holds the merged view.
C18_NoRedundantWrite ==
  [][(call'.op = "write" /\ fileExists /\ MergedView = fileData)
     => ~wrote' /\ UNCHANGED <<fileExists, fileData>>]_vars

---------------------------------------------------------------------------
\* Properties of reduceByts.

RECURSIVE SumSizes(_)
SumSizes(entries) ==
  IF entries = <<>> THEN 0 ELSE bfo(entries[1][2]) + SumSizes(Tail(entries))

EntrySet(entries) == {entries[i] : i \in 1..Len(entries)}

AsMapping(entries) ==
  [k \in {entries[i][1] : i \in 1..Len(entries)} |-> ValueOf(entries, k)]

\* C11: when the whole serialized mapping exceeds a budget that the empty
\* mapping fits, the whole serialized mapping reduceByts returns is within the
\* budget.
C11_ReducedFitsBudget ==
  (rPc = "done" /\ rMax >= bfoObj(EmptyObj) /\ bfoObj(AsMapping(rObj)) > rMax)
    => bfoObj(AsMapping(rOut)) <= rMax

---------------------------------------------------------------------------
\* Properties of the directory helpers.

\* C13: clear resolves when the folder does not exist, and rejects with the
\* error raised while listing or deleting whenever that error is not ENOENT,
\* errors without a code field included.
C13_ClearRethrows ==
  fsPc = "clear" =>
    /\ ~fsExists => ~fsOut.rejected
    /\ \A e \in Errors :
         (fsOut.error = <<e>> /\ ~(e.hasCode /\ e.code = "ENOENT"))
           => fsOut.rejected

\* C14: the keys of the mapping read returns iterate in natural order.
C14_ReadNaturalOrder ==
  (fsPc = "read" /\ ~fsOut.rejected) =>
    \A i, j \in 1..Len(fsOut.keys) :
      i < j => naturalOrder(fsOut.keys[i], fsOut.keys[j]) <= 0

====
